---- MODULE Spec2Model ----
(***************************************************************************)
(* Todo list manager (React): the todo state store of App.jsx, its two     *)
(* localStorage effects, and the callers of the store documented in        *)
(* NotesIMPORTANT.md.                                                      *)
(*                                                                         *)
(* The specifications share the definitions of the store operations:       *)
(*   Spec       the application life cycle: mount, the load and save       *)
(*              effects, state updaters queued by event handlers and run   *)
(*              by the next render, the wall clock, session end/restart;   *)
(*   StoreSpec  the four store operations as pure functions of the list,   *)
(*              applied to every bounded list with every argument.         *)
(*   LiveSpec   Spec with the fairness of React's scheduler (a queued      *)
(*              update is rendered, a committed render's effects run);     *)
(*   ViewSpec   one session with the local state of TodoForms and of the   *)
(*              TodoItems, the store called by their handlers only;        *)
(*   BatchSpec  handlers that issue several store calls before a render.   *)
(***************************************************************************)
EXTENDS Integers, Sequences, FiniteSets, TLC

\* ---- bounds ------------------------------------------------------------
MaxClock == 2      \* Date.now() readings are 1..MaxClock
MaxTodos == 2      \* create is not issued once the list holds this many
MaxQueue == 1      \* updaters queued before one render
MaxBatch == 2      \* store calls one event handler issues (BatchSpec)

Texts == {"a", "b"}
Ids == 1..MaxClock

\* A todo record {id, todo, completed}; App.jsx keeps them in an array.
Records == [id : Ids, todo : Texts, completed : BOOLEAN]
BoundedLists == UNION {[1..n -> Records] : n \in 0..MaxTodos}

VARIABLES
    todos,        \* useState([]): the list as of the last committed render
    queue,        \* settodos calls not yet processed by a render
    storage,      \* localStorage["todos"]
    phase,        \* "mount" | "idle" | "commit" | "crashed" (pending effects)
    now,          \* Date.now()
    prevSession,  \* history: the list held when the previous session ended
    before,       \* StoreSpec history: the list the last call was applied to
    call,         \* StoreSpec history: the last call applied
    items,        \* TodoItem local state, one per rendered record:
                  \*   [isTodoEditable, todoMsg]
    input,        \* TodoForms local state: the text typed (todo)
    composed      \* BatchSpec history: the list obtained by applying the
                  \*   store calls issued since the last render, one by one

vars == <<todos, queue, storage, phase, now, prevSession, before, call,
          items, input, composed>>

\* ---- JavaScript object spread ------------------------------------------
\* {...a, ...b}: the fields of both, b's value where both have the field.
Spread(a, b) ==
    [k \in (DOMAIN a) \cup (DOMAIN b) |-> IF k \in DOMAIN b THEN b[k] ELSE a[k]]

\* ---- the store operations (the updater each settodos call passes) -------
\* Variant of addTodo: the new record appended instead of prepended
addTodoAppend(prev, todo, clock) == prev \o <<Spread([id |-> clock], todo)>>

\* addTodo: (prev) => [{id: Date.now(), ...todo}, ...prev]
\* clock is the value Date.now() returns when the updater runs.
addTodo(prev, todo, clock) == <<Spread([id |-> clock], todo)>> \o prev

\* Variant of updatetodo: the replacement's text merged into the old record
updatetodoMerge(prev, id, todo) ==
    [i \in 1..Len(prev) |->
        IF prev[i].id = id THEN Spread(prev[i], [todo |-> todo.todo]) ELSE prev[i]]

\* updatetodo: prev.map(prevTodo => prevTodo.id === id ? todo : prevTodo)
updatetodo(prev, id, todo) ==
    [i \in 1..Len(prev) |-> IF prev[i].id = id THEN todo ELSE prev[i]]

\* Variant of deletetodo: the filter's test inverted
deletetodoInverted(prev, id) == SelectSeq(prev, LAMBDA t : t.id = id)

\* deletetodo: prev.filter(prevTodo => prevTodo.id !== id)
deletetodo(prev, id) == SelectSeq(prev, LAMBDA t : t.id # id)

\* Variant of toggleCompleted: the flag set instead of negated
toggleCompletedSet(prev, id) ==
    [i \in 1..Len(prev) |->
        IF prev[i].id = id
        THEN Spread(prev[i], [completed |-> TRUE])
        ELSE prev[i]]

\* toggleCompleted: prev.map(prevTodo => prevTodo.id === id
\*                     ? {...prevTodo, completed: !prevTodo.completed} : prevTodo)
toggleCompleted(prev, id) ==
    [i \in 1..Len(prev) |->
        IF prev[i].id = id
        THEN Spread(prev[i], [completed |-> ~prev[i].completed])
        ELSE prev[i]]

\* ---- JSON and localStorage ---------------------------------------------
\* A stored value is the text under the key "todos": none (getItem returns
\* null), a text that is not JSON, or the JSON text of an array of records.
\* The JSON text is modelled as the sequence of its serialized elements, a
\* boolean written as the token "true" or "false".
NoItem == [kind |-> "null"]
NotJSON == [kind |-> "garbage"]

JSONboolean(b) == IF b THEN "true" ELSE "false"

\* JSON.stringify(todos)
JSONstringify(list) ==
    [kind |-> "array",
     items |-> [i \in 1..Len(list) |->
                  [id |-> list[i].id, todo |-> list[i].todo,
                   completed |-> JSONboolean(list[i].completed)]]]

\* JSON.parse throws a SyntaxError on a text that is not JSON
JSONparseThrows(text) == text.kind = "garbage"

\* JSON.parse(text) for a text it accepts; JSON.parse(null) is null
JSONparse(text) ==
    IF text.kind = "array"
    THEN [null |-> FALSE,
          value |-> [i \in 1..Len(text.items) |->
                       [id |-> text.items[i].id, todo |-> text.items[i].todo,
                        completed |-> (text.items[i].completed = "true")]]]
    ELSE [null |-> TRUE, value |-> <<>>]

\* Variant of Restorable: the length test off by one
RestorableOffByOne(todo) == ~todo.null /\ Len(todo.value) > 1

\* The load effect's test: if (todo && todo.length > 0)
Restorable(todo) == ~todo.null /\ Len(todo.value) > 0

\* ---- queued state updates ----------------------------------------------
\* What one settodos call queues: an updater function of the previous list
\* (the four store operations) or a value (the load effect's settodos(todo)).
\* Variant of ApplyUpdater: each call builds its list from the todos of the
\* render it was issued in (settodos([...]) on the closure's todos)
ApplyUpdaterStale(u, prev, clock) ==
    CASE u.op = "add"    -> addTodo(todos, u.todo, clock)
      [] u.op = "update" -> updatetodo(todos, u.id, u.todo)
      [] u.op = "delete" -> deletetodo(todos, u.id)
      [] u.op = "toggle" -> toggleCompleted(todos, u.id)
      [] u.op = "set"    -> u.value

ApplyUpdater(u, prev, clock) ==
    CASE u.op = "add"    -> addTodo(prev, u.todo, clock)
      [] u.op = "update" -> updatetodo(prev, u.id, u.todo)
      [] u.op = "delete" -> deletetodo(prev, u.id)
      [] u.op = "toggle" -> toggleCompleted(prev, u.id)
      [] u.op = "set"    -> u.value

RECURSIVE ApplyAll(_, _, _)
\* React runs the queued updaters in the order they were queued, each on the
\* result of the one before.
ApplyAll(q, prev, clock) ==
    IF q = <<>> THEN prev
    ELSE ApplyAll(Tail(q), ApplyUpdater(Head(q), prev, clock), clock)

NoSession == [saved |-> FALSE, list |-> <<>>]
NoCall == [op |-> "none", id |-> 0]

Mounted == phase \in {"mount", "idle", "commit"}

\* settodos(u): queue u for the next render
Enqueue(u) ==
    /\ Mounted
    /\ Len(queue) < MaxQueue
    /\ queue' = Append(queue, u)
    /\ prevSession' = NoSession
    /\ UNCHANGED <<todos, storage, phase, now, before, call, items, input, composed>>

\* ---- Spec: the application life cycle ----------------------------------
Init ==
    /\ todos = <<>>
    /\ queue = <<>>
    /\ storage \in {NoItem, NotJSON, JSONstringify(<<>>)}
    /\ phase = "mount"
    /\ now = 1
    /\ prevSession = NoSession
    /\ before = <<>>
    /\ call = NoCall
    /\ items = <<>>
    /\ input = ""
    /\ composed = <<>>

\* TodoForms add(e): if (!todo) return; addTodo({todo, completed: false})
add(text) ==
    /\ text # ""
    /\ Len(ApplyAll(queue, todos, now)) < MaxTodos
    /\ Enqueue([op |-> "add", todo |-> [todo |-> text, completed |-> FALSE]])

\* TodoItem edit/save button: if (todo.completed) return; disabled={todo.completed}
editDisabled(todo) == todo.completed

\* TodoItem editTodo's second argument: {...todo, todo: todoMsg}
editReplacement(todo, todoMsg) == Spread(todo, [todo |-> todoMsg])

\* TodoItem editTodo: updatetodo(todo.id, {...todo, todo: todoMsg}), behind
\* the button's guard if (todo.completed) return
editTodo(todo, todoMsg) ==
    /\ ~editDisabled(todo)
    /\ Enqueue([op |-> "update", id |-> todo.id,
                todo |-> editReplacement(todo, todoMsg)])

\* TodoItem delete button: deletetodo(todo.id)
deleteClick(todo) == Enqueue([op |-> "delete", id |-> todo.id])

\* TodoItem toggleComplete: toggleCompleted(todo.id)
toggleComplete(todo) == Enqueue([op |-> "toggle", id |-> todo.id])

\* A render of App processes the queued updates and commits the new list;
\* React flushes the pending effects of the previous commit first.
Commit ==
    /\ phase = "idle"
    /\ queue # <<>>
    /\ todos' = ApplyAll(queue, todos, now)
    /\ queue' = <<>>
    /\ phase' = "commit"
    /\ UNCHANGED <<storage, now, prevSession, before, call, input, composed>>

\* The render as Spec sees it: the store alone, no TodoItem state
Render == Commit /\ UNCHANGED items

\* Variant of SaveEffect: an empty list is not written
SaveEffectSkipEmpty(list) == IF list = <<>> THEN storage ELSE JSONstringify(list)

\* useEffect(() => localStorage.setItem("todos", JSON.stringify(todos)), [todos])
SaveEffect(list) == JSONstringify(list)

\* The effects of the mount commit, in declaration order: the load effect
\* (JSON.parse, then settodos(todo) if todo && todo.length > 0), then the save
\* effect with the list of that render. A throw in the load effect ends the
\* effect list and React unmounts the tree (there is no error boundary).
MountEffects ==
    /\ phase = "mount"
    /\ IF JSONparseThrows(storage)
       THEN /\ phase' = "crashed"
            /\ UNCHANGED <<todos, queue, storage>>
       ELSE LET todo == JSONparse(storage) IN
            /\ queue' = IF Restorable(todo)
                        THEN Append(queue, [op |-> "set", value |-> todo.value])
                        ELSE queue
            /\ storage' = SaveEffect(todos)
            /\ phase' = "idle"
            /\ UNCHANGED todos
    /\ UNCHANGED <<now, prevSession, before, call, items, input, composed>>

\* The save effect after a render that changed todos
UpdateEffects ==
    /\ phase = "commit"
    /\ storage' = SaveEffect(todos)
    /\ phase' = "idle"
    /\ UNCHANGED <<todos, queue, now, prevSession, before, call, items, input, composed>>

\* The session ends (tab closed or reloaded) and the application starts
\* again: only localStorage survives. useState([]) and the mount render.
Restart ==
    /\ todos' = <<>>
    /\ queue' = <<>>
    /\ phase' = "mount"
    /\ prevSession' = IF phase = "idle" THEN [saved |-> TRUE, list |-> todos]
                      ELSE NoSession
    /\ items' = <<>>
    /\ input' = ""
    /\ UNCHANGED <<storage, now, before, call, composed>>

\* The wall clock advances
Tick ==
    /\ now < MaxClock
    /\ now' = now + 1
    /\ UNCHANGED <<todos, queue, storage, phase, prevSession, before, call, items, input, composed>>

Rendered == {todos[i] : i \in 1..Len(todos)}

Next ==
    \/ \E text \in Texts : add(text)
    \/ \E todo \in Rendered, todoMsg \in Texts : editTodo(todo, todoMsg)
    \/ \E todo \in Rendered : deleteClick(todo)
    \/ \E todo \in Rendered : toggleComplete(todo)
    \/ Render
    \/ MountEffects
    \/ UpdateEffects
    \/ Restart
    \/ Tick

Spec == Init /\ [][Next]_vars

\* React's scheduler renders a queued update and runs the effects of a
\* committed render; nothing obliges the user to act or the session to last.
LiveSpec ==
    /\ Init
    /\ [][Next]_vars
    /\ WF_vars(Render)
    /\ WF_vars(MountEffects)
    /\ WF_vars(UpdateEffects)

\* ---- StoreSpec: the store operations on every bounded list -------------
StoreInit ==
    /\ todos \in BoundedLists
    /\ before = <<>>
    /\ call = NoCall
    /\ queue = <<>>
    /\ storage = NoItem
    /\ phase = "idle"
    /\ now = 1
    /\ prevSession = NoSession
    /\ items = <<>>
    /\ input = ""
    /\ composed = <<>>

StoreFrame ==
    UNCHANGED <<queue, storage, phase, now, prevSession, items, input, composed>>

\* addTodo({todo: text, completed: false}) with Date.now() = clock
callAddTodo(text, clock) ==
    LET todo == [todo |-> text, completed |-> FALSE] IN
    /\ Len(todos) < MaxTodos
    /\ todos' = addTodo(todos, todo, clock)
    /\ before' = todos
    /\ call' = [op |-> "add", id |-> clock, todo |-> todo]
    /\ StoreFrame

\* updatetodo(id, todo) with any id and any replacement record
callUpdatetodo(id, todo) ==
    /\ todos' = updatetodo(todos, id, todo)
    /\ before' = todos
    /\ call' = [op |-> "update", id |-> id, todo |-> todo]
    /\ StoreFrame

\* deletetodo(id)
callDeletetodo(id) ==
    /\ todos' = deletetodo(todos, id)
    /\ before' = todos
    /\ call' = [op |-> "delete", id |-> id]
    /\ StoreFrame

\* toggleCompleted(id)
callToggleCompleted(id) ==
    /\ todos' = toggleCompleted(todos, id)
    /\ before' = todos
    /\ call' = [op |-> "toggle", id |-> id]
    /\ StoreFrame

StoreNext ==
    \/ \E text \in Texts, clock \in Ids : callAddTodo(text, clock)
    \/ \E id \in Ids, todo \in Records : callUpdatetodo(id, todo)
    \/ \E id \in Ids : callDeletetodo(id)
    \/ \E id \in Ids : callToggleCompleted(id)

StoreSpec == StoreInit /\ [][StoreNext]_vars

\* ---- ViewSpec: the store driven by TodoForms and the TodoItems ----------
\* What the user can type: nothing, a blank, a word
ViewTexts == {"", " ", "a"}

\* TodoItem: const [isTodoEditable, ...] = useState(false)
\*           const [todoMsg, ...] = useState(todo.todo)
ItemStates == [isTodoEditable : BOOLEAN, todoMsg : ViewTexts]
NewItem(todo) == [isTodoEditable |-> FALSE, todoMsg |-> todo.todo]

\* <div key={todo.id}><TodoItem todo={todo} /></div>: across a render a
\* TodoItem keeps its state when its key is in the old and the new list, and
\* is mounted anew otherwise. With a key that occurs twice React promises
\* nothing: the item may get the state of any old item with that key, or be
\* mounted anew.
ItemChoices(old, oldItems, new, j) ==
    LET olds == {p \in 1..Len(old) : old[p].id = new[j].id}
        news == {p \in 1..Len(new) : new[p].id = new[j].id}
    IN  IF olds = {} THEN {NewItem(new[j])}
        ELSE IF Cardinality(olds) = 1 /\ Cardinality(news) = 1
        THEN {oldItems[p] : p \in olds}
        ELSE {oldItems[p] : p \in olds} \cup {NewItem(new[j])}

RECURSIVE ItemLists(_, _, _, _)
\* The item states the first n records of the new list may get
ItemLists(old, oldItems, new, n) ==
    IF n = 0 THEN {<<>>}
    ELSE {Append(s, c) : s \in ItemLists(old, oldItems, new, n - 1),
                         c \in ItemChoices(old, oldItems, new, n)}

\* The render with the TodoItems it keeps, mounts and unmounts
RenderView ==
    /\ Commit
    /\ items' \in ItemLists(todos, items, todos', Len(todos'))

\* React renders the update of one click or key press, and runs the effects
\* of that render, before it handles the next: a handler runs with no update
\* queued and no effect pending, or before the effects of the mount.
Interactive == phase \in {"mount", "idle"} /\ queue = <<>>

\* TodoForms input: onChange={(e) => settodo(e.target.value)}
typeTodo(text) ==
    /\ Interactive
    /\ input' = text
    /\ UNCHANGED <<todos, queue, storage, phase, now, prevSession, before, call,
                   items, composed>>

\* TodoForms add(e): if (!todo) return; addTodo({todo, completed: false});
\* settodo("")
submit ==
    /\ Interactive
    /\ IF input = ""
       THEN UNCHANGED <<queue, input>>
       ELSE /\ Len(todos) < MaxTodos
            /\ queue' = Append(queue, [op |-> "add",
                                       todo |-> [todo |-> input, completed |-> FALSE]])
            /\ input' = ""
    /\ UNCHANGED <<todos, storage, phase, now, prevSession, before, call,
                   items, composed>>

\* TodoItem edit/save button onClick: if (todo.completed) return;
\* if (isTodoEditable) editTodo() else setisTodoEditable(prev => !prev)
\* editTodo: updatetodo(todo.id, {...todo, todo: todoMsg});
\*           setisTodoEditable(false)
clickEdit(i) ==
    /\ Interactive
    /\ ~editDisabled(todos[i])
    /\ IF items[i].isTodoEditable
       THEN /\ queue' = Append(queue, [op |-> "update", id |-> todos[i].id,
                                       todo |-> editReplacement(todos[i], items[i].todoMsg)])
            /\ items' = [items EXCEPT ![i].isTodoEditable = FALSE]
       ELSE /\ items' = [items EXCEPT ![i].isTodoEditable = ~items[i].isTodoEditable]
            /\ UNCHANGED queue
    /\ UNCHANGED <<todos, storage, phase, now, prevSession, before, call,
                   input, composed>>

\* TodoItem text input: read-only unless isTodoEditable; typing sets todoMsg
typeDraft(i, text) ==
    /\ Interactive
    /\ items[i].isTodoEditable
    /\ items' = [items EXCEPT ![i].todoMsg = text]
    /\ UNCHANGED <<todos, queue, storage, phase, now, prevSession, before, call,
                   input, composed>>

\* TodoItem checkbox: toggleComplete() { toggleCompleted(todo.id) }
clickToggle(i) ==
    /\ Interactive
    /\ queue' = Append(queue, [op |-> "toggle", id |-> todos[i].id])
    /\ UNCHANGED <<todos, storage, phase, now, prevSession, before, call,
                   items, input, composed>>

\* TodoItem delete button: deletetodo(todo.id)
clickDelete(i) ==
    /\ Interactive
    /\ queue' = Append(queue, [op |-> "delete", id |-> todos[i].id])
    /\ UNCHANGED <<todos, storage, phase, now, prevSession, before, call,
                   items, input, composed>>

ViewNext ==
    \/ \E text \in ViewTexts : typeTodo(text)
    \/ submit
    \/ \E i \in 1..Len(items) : clickEdit(i)
    \/ \E i \in 1..Len(items), text \in ViewTexts : typeDraft(i, text)
    \/ \E i \in 1..Len(items) : clickToggle(i)
    \/ \E i \in 1..Len(items) : clickDelete(i)
    \/ RenderView
    \/ MountEffects
    \/ UpdateEffects
    \/ Tick

\* One session of the application, from its start
ViewSpec == Init /\ [][ViewNext]_vars

\* ---- BatchSpec: several store calls issued before one render -----------
\* One event handler issues up to MaxBatch store calls; each settodos queues
\* its updater, and composed records the list the calls give when applied
\* one after the other as they are issued. A handler runs once the effects
\* of the previous commit have run, and its calls and the render that follows
\* read one clock value.
BatchInit ==
    /\ todos = <<>>
    /\ queue = <<>>
    /\ storage = JSONstringify(<<>>)
    /\ phase = "idle"
    /\ now = 1
    /\ prevSession = NoSession
    /\ before = <<>>
    /\ call = NoCall
    /\ items = <<>>
    /\ input = ""
    /\ composed = <<>>

\* The list the next issued call applies to
Running == IF queue = <<>> THEN todos ELSE composed

\* settodos(u) inside a handler that may issue further calls
Issue(u, result) ==
    /\ phase = "idle"
    /\ Len(queue) < MaxBatch
    /\ queue' = Append(queue, u)
    /\ composed' = result
    /\ UNCHANGED <<todos, storage, phase, now, prevSession, before, call,
                   items, input>>

issueAddTodo(text) ==
    LET todo == [todo |-> text, completed |-> FALSE] IN
    /\ Len(Running) < MaxTodos
    /\ Issue([op |-> "add", todo |-> todo], addTodo(Running, todo, now))

issueUpdatetodo(todo, todoMsg) ==
    LET replacement == Spread(todo, [todo |-> todoMsg]) IN
    Issue([op |-> "update", id |-> todo.id, todo |-> replacement],
          updatetodo(Running, todo.id, replacement))

issueDeletetodo(id) ==
    Issue([op |-> "delete", id |-> id], deletetodo(Running, id))

issueToggleCompleted(id) ==
    Issue([op |-> "toggle", id |-> id], toggleCompleted(Running, id))

BatchTick == queue = <<>> /\ Tick

BatchNext ==
    \/ \E text \in Texts : issueAddTodo(text)
    \/ \E todo \in Rendered, todoMsg \in Texts : issueUpdatetodo(todo, todoMsg)
    \/ \E todo \in Rendered : issueDeletetodo(todo.id)
    \/ \E todo \in Rendered : issueToggleCompleted(todo.id)
    \/ Render
    \/ UpdateEffects
    \/ BatchTick

BatchSpec == BatchInit /\ [][BatchNext]_vars

\* ======================= the claims ====================================
Matches(list, id) == {i \in 1..Len(list) : list[i].id = id}

\* A step of Spec that runs the effects of the mount commit
MountEffectsStep == phase = "mount" /\ phase' # "mount"

\* A step of Spec that renders exactly one queued call of the given kind
RenderOf(op) ==
    /\ phase = "idle" /\ phase' = "commit"
    /\ Len(queue) = 1
    /\ queue[1].op = op

\* C1: starting with no stored value or with an unparseable stored value
\* does not fail: the load effect restores nothing (queues no update), the
\* application keeps running and the list is the empty list.
C1_StartupFallback ==
    [][(MountEffectsStep /\ storage \in {NoItem, NotJSON})
        => (phase' = "idle" /\ queue' = queue /\ todos' = <<>>)]_vars

\* C2 as stated: after update(id, replacement) the list has the same length,
\* every record whose id does not match is unchanged, and the matching record
\* keeps its id and its completed flag.
C2_UpdateKeepsIdAndCompleted ==
    call.op = "update" =>
        /\ Len(todos) = Len(before)
        /\ \A i \in 1..Len(before) :
              IF before[i].id = call.id
              THEN /\ todos[i].id = before[i].id
                   /\ todos[i].completed = before[i].completed
              ELSE todos[i] = before[i]

\* C2 amended: after update(id, replacement) the list has the same length and
\* order, every record whose id does not match is unchanged, and every record
\* whose id matches is the supplied replacement, whole.
C2_UpdateReplacesWhole ==
    call.op = "update" =>
        /\ Len(todos) = Len(before)
        /\ \A i \in 1..Len(before) :
              todos[i] = IF before[i].id = call.id THEN call.todo ELSE before[i]

\* C2 witness: an update hit a record with a replacement carrying another id
\* and another completed flag, beside a record it did not hit.
C2_Witness ==
    /\ call.op = "update"
    /\ \E i, j \in 1..Len(before) :
          /\ before[i].id = call.id
          /\ call.todo.id # before[i].id
          /\ call.todo.completed # before[i].completed
          /\ before[j].id # call.id

\* C3: no two records of the in-memory list have the same id.
C3_UniqueIds ==
    \A i, j \in 1..Len(todos) : i # j => todos[i].id # todos[j].id

\* C4: once the save for the list L has run, ending the session and starting
\* again yields, when startup has completed (effects run, the restored list
\* rendered, no call issued since), a list equal to L; L may be empty.
C4_RoundTripAcrossRestart ==
    (prevSession.saved /\ phase = "idle" /\ queue = <<>>)
        => todos = prevSession.list

\* C4 witness: a restarted session that has restored a list with a
\* completed record in it.
C4_Witness ==
    /\ prevSession.saved /\ phase = "idle" /\ queue = <<>>
    /\ todos = prevSession.list
    /\ storage = JSONstringify(todos)
    /\ \E i \in 1..Len(todos) : todos[i].completed

\* C5: every change of the list is followed by a save of the full list:
\* whenever no save is pending the stored value is the serialized list; the
\* list changes only in a commit that leaves a save pending (or at a
\* restart); and a pending save runs, leaving the serialized list stored,
\* unless the session ends first.
C5_SaveFollowsChange ==
    /\ [](phase = "idle" => storage = JSONstringify(todos))
    /\ [][todos' # todos => phase' \in {"commit", "mount"}]_vars
    /\ (phase = "commit"
          ~> (phase = "mount" \/ (phase = "idle" /\ storage = JSONstringify(todos))))

\* C5 witness: a non-empty list, two records, rendered and saved.
C5_Witness ==
    /\ phase = "idle" /\ queue = <<>>
    /\ Len(todos) = 2
    /\ storage = JSONstringify(todos)
    /\ ~prevSession.saved

\* C6: update, delete and toggleCompleted with an id that no record of the
\* list has leave the list equal to what it was.
C6_NoOpOnMissingId ==
    (call.op \in {"update", "delete", "toggle"} /\ Matches(before, call.id) = {})
        => todos = before

\* C6 witness: a delete with an id absent from a non-empty list.
C6_Witness ==
    /\ call.op = "delete"
    /\ before # <<>>
    /\ Matches(before, call.id) = {}

\* C7: a render of delete(id) on a list holding a record with that id
\* removes that record and only that one: the length decreases by exactly
\* one and the other records remain, unchanged and in order.
C7_DeleteRemovesExactlyOne ==
    [][(RenderOf("delete") /\ Matches(todos, queue[1].id) # {})
        => (\E i \in Matches(todos, queue[1].id) :
              /\ Len(todos') = Len(todos) - 1
              /\ todos' = [j \in 1..(Len(todos) - 1) |->
                             IF j < i THEN todos[j] ELSE todos[j + 1]])]_vars

\* C8: create(text) yields the list whose first element is the new record,
\* carrying that text and completed = FALSE, followed by the previous list.
C8_CreatePrepends ==
    call.op = "add" =>
        /\ Len(todos) = Len(before) + 1
        /\ todos[1].todo = call.todo.todo
        /\ todos[1].completed = FALSE
        /\ Tail(todos) = before

\* C8 witness: "b" created on a list holding "a" gives [b, a].
C8_Witness ==
    /\ call.op = "add"
    /\ call.todo.todo = "b"
    /\ Len(todos) = 2
    /\ todos[1].todo = "b" /\ todos[2].todo = "a"

\* C9: toggleCompleted(id) called again right after toggleCompleted(id)
\* returns the whole list to the value it had before the first call.
C9_ToggleTwiceIsIdentity ==
    call.op = "toggle" => toggleCompleted(todos, call.id) = before

\* C9 witness: a toggle that changed the flag of a record.
C9_Witness ==
    /\ call.op = "toggle"
    /\ \E i \in Matches(before, call.id) :
          todos[i].completed # before[i].completed

\* C10: a render of toggleCompleted(id) on a list holding a record with
\* that id negates the completed flag of that one record and changes nothing
\* else.
C10_ToggleChangesOneFlag ==
    [][(RenderOf("toggle") /\ Matches(todos, queue[1].id) # {})
        => (\E i \in Matches(todos, queue[1].id) :
              todos' = [j \in 1..Len(todos) |->
                          IF j = i
                          THEN [todos[j] EXCEPT !.completed = ~todos[j].completed]
                          ELSE todos[j]])]_vars

\* C17: startup never destroys persisted data: while the application is
\* starting with a non-empty list stored, no step changes the stored value
\* (the save effect of the mount commit does not overwrite it).
C17_StartupKeepsStored ==
    [][(phase = "mount" /\ storage.kind = "array" /\ Len(storage.items) > 0)
        => storage' = storage]_vars

\* C15: the store calls issued before one render are each applied to the
\* list the previous one produced, in issue order: the rendered list is their
\* sequential composition, and the one save that follows writes that list.
C15_BatchIsSequentialComposition ==
    /\ queue = <<>> => todos = composed
    /\ (queue = <<>> /\ phase = "idle") => storage = JSONstringify(composed)

\* C15 witness: two creates issued in one batch, rendered and saved: both
\* records are in the list.
C15_Witness ==
    /\ queue = <<>> /\ phase = "idle"
    /\ Len(todos) = 2
    /\ todos = composed
    /\ todos[1].todo = "b" /\ todos[2].todo = "a"
    /\ storage = JSONstringify(todos)

\* A step of ViewSpec that renders the queued update
CommitStep == phase = "idle" /\ phase' = "commit"

\* C11: through the TodoItems a completed record is immutable except for
\* un-toggling: no render changes the text of a record whose completed flag
\* is true, whatever the order of enter-edit, typing, toggle and save.
C11_CompletedTextImmutable ==
    [][(CommitStep /\ Len(todos') = Len(todos))
        => \A i \in 1..Len(todos) :
             todos[i].completed => todos'[i].todo = todos[i].todo]_vars

\* C12: every record of the list has non-empty text.
C12_TextNeverEmpty ==
    \A i \in 1..Len(todos) : todos[i].todo # ""

\* The step is a submit of TodoForms that called addTodo
SubmitCreates ==
    /\ Len(queue') = Len(queue) + 1
    /\ queue'[Len(queue')].op = "add"

\* C13: a submit with empty or whitespace-only text is ignored (create is
\* not called, list and stored value unchanged); a submit with any other text
\* calls create with that text and completed = FALSE and clears the input.
C13_BlankSubmitIgnored ==
    [][SubmitCreates =>
        /\ input \notin {"", " "}
        /\ queue'[Len(queue')].todo = [todo |-> input, completed |-> FALSE]
        /\ input' = ""
        /\ todos' = todos /\ storage' = storage]_vars

\* C14: the replacement every save passes is the store's current record for
\* that id with only the text replaced: it carries the id and the completed
\* flag of every record the update will replace.
C14_SaveCarriesCurrentRecord ==
    \A k \in 1..Len(queue) :
        queue[k].op = "update" =>
            \A i \in Matches(todos, queue[k].id) :
                /\ queue[k].todo.id = todos[i].id
                /\ queue[k].todo.completed = todos[i].completed

\* C16: a TodoItem that is not in edit mode has a draft equal to the text of
\* its record (so the draft equals the text whenever edit mode is entered).
C16_DraftEqualsTextOutsideEdit ==
    Interactive =>
        \A i \in 1..Len(todos) :
            ~items[i].isTodoEditable => items[i].todoMsg = todos[i].todo

====
